---- MODULE Spec2Model ----
(***************************************************************************)
(* State-machine model of the Aura task scheduler (src/src/main.js, class   *)
(* TaskScheduler): the IndexedDB object store "tasks", the in-memory list   *)
(* this.tasks, and the asynchronous handlers that read and write them.      *)
(*                                                                          *)
(* Time is counted in half hours since local midnight of the current day    *)
(* (09:00 = 18, 11:00 = 22), so that "less than one hour apart" has the     *)
(* cases 0, 30 minutes and exactly one hour.                                *)
(*                                                                          *)
(* A handler runs without interruption up to its next await of an IndexedDB *)
(* request or of the AI backend (awaits of already-settled promises only    *)
(* yield to microtasks, which no event can interleave with).  All           *)
(* transactions are on the single store "tasks", so IndexedDB runs them in  *)
(* the order they were created: `queue` is that order, and each entry       *)
(* carries the continuation of the handler that awaits it.                  *)
(***************************************************************************)
EXTENDS Integers, Sequences, FiniteSets, TLC

VARIABLES
    db,             \* the object store: the set of persisted records
    nextId,         \* the store's autoIncrement key generator
    tasks,          \* this.tasks: the in-memory task list (objects mutated in place)
    queue,          \* IndexedDB requests issued and not yet completed, oldest first
    ai,             \* per analysis type: position of analyzeMedia before parsing
    responsePre,    \* per analysis type: what the response element shows
    conflictStatus, \* the conflictStatus element: 0, or the time a task was moved to
    clock,          \* the wall clock read by `new Date()` when a task is built
    ops,            \* number of user intents handled so far
    fails,          \* number of store.add requests rejected so far
    last,           \* the last handler step taken (observation only)
    deleted,        \* ids whose deleteTaskHandler has completed (observation only)
    born,           \* <<id, created>> of every record ever inserted (observation only)
    batchesOnly,    \* TRUE while only analyses ran, one at a time (observation only)
    rendered,       \* the task items renderTasks last put into #tasksList
    solo            \* TRUE when the newest user intent began with nothing in flight
                    \* (observation only)

vars == <<db, nextId, tasks, queue, ai, responsePre, conflictStatus, clock, ops,
          fails, last, deleted, born, batchesOnly, rendered, solo>>

----------------------------------------------------------------------------
(* Bounds *)

MaxOps == 3        \* user intents (analyze, drop, edit, delete, resolve-all) per run
MaxIds == 3        \* records ever inserted
MaxBatch == 2      \* candidates in one AI response
MaxFails == 1      \* rejected store.add requests per run

(* Program constants *)

oneHour == 2       \* 60 * 60 * 1000 ms, in half hours
startHour == 18    \* startTime.setHours(9, 0, 0, 0), in half hours

Types == {"text"}  \* analysis types; "audio" and "image" run the same code on other elements

----------------------------------------------------------------------------
(* Time strings.  A task's time is a string; [utc |-> TRUE] is the form     *)
(* toISOString() writes ("...Z"), [utc |-> FALSE] an ISO string without a   *)
(* zone designator as the AI may return it ("2025-01-10T11:00:00").         *)

DateParse(s) == s.t

toISOString(ms) == [t |-> ms, utc |-> TRUE]

Abs(x) == IF x < 0 THEN -x ELSE x

----------------------------------------------------------------------------
(* Task candidates as the AI may return them.  "undefined" stands for a     *)
(* property the JSON object does not have.                                  *)

CandTimes == {20, 21, 22}    \* 10:00, 10:30, 11:00

Cands ==
    {[title |-> "vet", time |-> toISOString(t), description |-> "undefined"] :
         t \in CandTimes}
    \cup {[title |-> "vet", time |-> [t |-> 22, utc |-> FALSE],
           description |-> "undefined"],
          [title |-> "cat", time |-> toISOString(21), description |-> "d"],
          [title |-> "undefined", time |-> toISOString(20),
           description |-> "undefined"]}

EditTitles == {"dentist"}    \* what prompt("Edit task title:") returns

NoCand == [title |-> "", time |-> toISOString(0), description |-> ""]

NoTask ==
    [id |-> 0, title |-> "", time |-> toISOString(0), description |-> "",
     created |-> 0]

----------------------------------------------------------------------------
(* The AI's response text, as a sequence of tokens: "[", "]", ",", a JSON   *)
(* object without nested brackets ("obj", with the candidate it denotes),   *)
(* and prose without brackets, braces or a task/meeting/appointment phrase. *)

Tok(ch) == [ch |-> ch, c |-> NoCand]

Obj(c) == [ch |-> "obj", c |-> c]

RECURSIVE ArrayText(_)
ArrayText(cs) ==
    IF cs = <<>> THEN <<>>
    ELSE IF Len(cs) = 1 THEN <<Obj(cs[1])>>
    ELSE <<Obj(cs[1]), Tok(",")>> \o ArrayText(Tail(cs))

CandSeqs == UNION {[1..n -> Cands] : n \in 0..MaxBatch}

Responses ==
    {<<Tok("[")>> \o ArrayText(cs) \o <<Tok("]")>> : cs \in CandSeqs}
    \cup {<<Tok("prose"), Obj(c)>> : c \in Cands}
    \cup {<<Tok("["), Tok("prose"), Tok("]"), Obj(c)>> : c \in Cands}
    \cup {<<Tok("prose")>>}

(* JSON.parse of the tokens between a "[" and a "]": the array's elements,  *)
(* or "throws" when they are not `obj (, obj)*`.                            *)
RECURSIVE JSONparseElems(_)
JSONparseElems(inner) ==
    IF inner = <<>> THEN [ok |-> TRUE, arr |-> <<>>]
    ELSE IF inner[1].ch # "obj" THEN [ok |-> FALSE, arr |-> <<>>]
    ELSE IF Len(inner) = 1 THEN [ok |-> TRUE, arr |-> <<inner[1].c>>]
    ELSE IF inner[2].ch # "," \/ Len(inner) = 2 THEN [ok |-> FALSE, arr |-> <<>>]
    ELSE LET r == JSONparseElems(SubSeq(inner, 3, Len(inner)))
         IN  [ok |-> r.ok, arr |-> <<inner[1].c>> \o r.arr]

(* parseTaskFromAI: [isNull |-> TRUE] for null, else the candidate array.   *)
parseTaskFromAI(aiResponse) ==
    LET opens == {i \in 1..Len(aiResponse) : aiResponse[i].ch = "["}
        a == IF opens = {} THEN 0 ELSE CHOOSE i \in opens : \A j \in opens : i <= j
        closes == {i \in 1..Len(aiResponse) : i > a /\ aiResponse[i].ch = "]"}
        b == IF closes = {} THEN 0 ELSE CHOOSE i \in closes : \A j \in closes : i <= j
        objs == {i \in 1..Len(aiResponse) : aiResponse[i].ch = "obj"}
        o == IF objs = {} THEN 0 ELSE CHOOSE i \in objs : \A j \in objs : i <= j
        null == [isNull |-> TRUE, arr |-> <<>>]
    IN  IF a # 0 /\ b # 0
        THEN LET r == JSONparseElems(SubSeq(aiResponse, a + 1, b - 1))
             IN  IF r.ok THEN [isNull |-> FALSE, arr |-> r.arr]
                 ELSE null                      \* JSON.parse throws: outer catch
        ELSE IF o # 0 THEN [isNull |-> FALSE, arr |-> <<aiResponse[o].c>>]
        ELSE null

----------------------------------------------------------------------------
(* The store and the sorted view *)

Ids(list) == {list[i].id : i \in 1..Len(list)}

(* store.getAll(): the records in ascending key order *)
RECURSIVE getAll(_)
getAll(S) ==
    IF S = {} THEN <<>>
    ELSE LET r == CHOOSE x \in S : \A y \in S : x.id <= y.id
         IN  <<r>> \o getAll(S \ {r})

(* Array.prototype.sort with (a, b) => new Date(a.time) - new Date(b.time): *)
(* a stable sort, here by insertion after the last element not later.       *)
insertByTime_unstable(sorted, r) ==
    LET later == {i \in 1..Len(sorted) :
                     DateParse(sorted[i].time) >= DateParse(r.time)}
        k == IF later = {} THEN Len(sorted) + 1
             ELSE CHOOSE i \in later : \A j \in later : i <= j
    IN  SubSeq(sorted, 1, k - 1) \o <<r>> \o SubSeq(sorted, k, Len(sorted))

insertByTime(sorted, r) ==
    LET later == {i \in 1..Len(sorted) :
                     DateParse(sorted[i].time) > DateParse(r.time)}
        k == IF later = {} THEN Len(sorted) + 1
             ELSE CHOOSE i \in later : \A j \in later : i <= j
    IN  SubSeq(sorted, 1, k - 1) \o <<r>> \o SubSeq(sorted, k, Len(sorted))

RECURSIVE sortFrom(_, _)
sortFrom(sorted, rest) ==
    IF rest = <<>> THEN sorted
    ELSE sortFrom(insertByTime(sorted, Head(rest)), Tail(rest))

sortByTime(list) == sortFrom(<<>>, list)

loadTasks(store) == sortByTime(getAll(store))

storeAdd(store, task, key) == store \cup {[task EXCEPT !.id = key]}

storePut_keepsOld(store, task) ==
    IF \E r \in store : r.id = task.id THEN store ELSE store \cup {task}

storePut(store, task) == {r \in store : r.id # task.id} \cup {task}

storeDelete(store, id) == {r \in store : r.id # id}

----------------------------------------------------------------------------
(* Conflict resolution *)

(* The loop of resolveConflicts from index i on: the first task of `list`   *)
(* less than one hour from newTask moves newTask to one hour after it, and  *)
(* the scan stops.                                                          *)
RECURSIVE scanConflicts_inclusive(_, _, _)
scanConflicts_inclusive(newTask, list, i) ==
    IF i > Len(list) THEN newTask
    ELSE IF Abs(DateParse(newTask.time) - DateParse(list[i].time)) <= oneHour
    THEN [newTask EXCEPT !.time = toISOString(DateParse(list[i].time) + oneHour)]
    ELSE scanConflicts_inclusive(newTask, list, i + 1)

RECURSIVE scanConflicts(_, _, _)
scanConflicts(newTask, list, i) ==
    IF i > Len(list) THEN newTask
    ELSE IF Abs(DateParse(newTask.time) - DateParse(list[i].time)) < oneHour
    THEN [newTask EXCEPT !.time = toISOString(DateParse(list[i].time) + oneHour)]
    ELSE scanConflicts(newTask, list, i + 1)

resolveConflicts(newTask, list) == scanConflicts(newTask, list, 1)

(* updateConflictStatus is called exactly when the scan found a conflict,   *)
(* and then the new time is another instant than the old one.               *)
statusAfter(newTask, list, status) ==
    LET r == resolveConflicts(newTask, list)
    IN  IF DateParse(r.time) # DateParse(newTask.time) THEN DateParse(r.time)
        ELSE status

(* The resolve-all click handler's loop: resolveConflicts(task) for each    *)
(* task of this.tasks, from index i on.  The argument is an element of the  *)
(* list it is compared with, and resolveConflicts writes the new time into  *)
(* its argument, so the list element itself changes.                        *)
RECURSIVE sweepFrom(_, _, _)
sweepFrom(list, i, status) ==
    IF i > Len(list) THEN [list |-> list, status |-> status]
    ELSE sweepFrom([list EXCEPT ![i] = resolveConflicts(list[i], list)], i + 1,
                   statusAfter(list[i], list, status))

(* The task object addTasksFromAI builds from one candidate *)
buildTask(taskInfo, now) ==
    [id |-> 0, title |-> taskInfo.title, time |-> taskInfo.time,
     description |-> IF taskInfo.description = "undefined" THEN ""
                     ELSE taskInfo.description,
     created |-> now]

(* handleTaskReorder's time for 1-based position pos *)
newTime_fromTen(pos) == toISOString(startHour + pos * oneHour)

newTime(pos) == toISOString(startHour + (pos - 1) * oneHour)

----------------------------------------------------------------------------
(* Requests and continuations *)

Req(op, task, kind, rest, order, i, type) ==
    [op |-> op, task |-> task, kind |-> kind, rest |-> rest, order |-> order,
     i |-> i, type |-> type]

(* the loadTasks() call that ends handler `kind` *)
LoadReq(kind, task) == Req("getAll", task, kind, <<>>, <<>>, 0, "")

(* `text` is the fullResponse a step has just parsed, else empty *)
Event(ev, id) == [ev |-> ev, id |-> id, text |-> <<>>]

Idle == queue = <<>> /\ \A ty \in Types : ai[ty] = "idle"

Init ==
    /\ db = {}
    /\ nextId = 1
    /\ tasks = <<>>
    /\ queue = <<>>
    /\ ai = [ty \in Types |-> "idle"]
    /\ responsePre = [ty \in Types |-> ""]
    /\ conflictStatus = 0
    /\ clock = 1
    /\ ops = 0
    /\ fails = 0
    /\ last = Event("init", 0)
    /\ deleted = {}
    /\ born = {}
    /\ batchesOnly = TRUE
    /\ rendered = <<>>
    /\ solo = TRUE

----------------------------------------------------------------------------
(* addTasksFromAI *)

addTasksFromAI_lastFirst(q, rest, type) ==
    IF rest = <<>>
    THEN /\ queue' = Append(q, Req("getAll", NoTask, "analyze", <<>>, <<>>, 0, ""))
         /\ UNCHANGED <<conflictStatus, clock>>
    ELSE LET task == buildTask(rest[Len(rest)], clock)
         IN  /\ queue' = Append(q, Req("add", resolveConflicts(task, tasks),
                                       "analyze", SubSeq(rest, 1, Len(rest) - 1),
                                       <<>>, 0, type))
             /\ conflictStatus' = statusAfter(task, tasks, conflictStatus)
             /\ clock' = clock + 1

(* One turn of addTasksFromAI's loop with `rest` the candidates still to    *)
(* add and q the pending requests: build the task, resolve it against       *)
(* this.tasks and issue store.add; after the last candidate, loadTasks().   *)
addTasksFromAI(q, rest, type) ==
    IF rest = <<>>
    THEN /\ queue' = Append(q, LoadReq("analyze", NoTask))
         /\ UNCHANGED <<conflictStatus, clock>>
    ELSE LET task == buildTask(Head(rest), clock)
         IN  /\ queue' = Append(q, Req("add", resolveConflicts(task, tasks),
                                       "analyze", Tail(rest), <<>>, 0, type))
             /\ conflictStatus' = statusAfter(task, tasks, conflictStatus)
             /\ clock' = clock + 1

(* handleTaskReorder's loop from 1-based position i on, with q the pending  *)
(* requests: the next listed id that this.tasks still holds gets its new    *)
(* time and is written with store.put; after the last position,             *)
(* loadTasks().                                                             *)
reorderFrom(q, order, i) ==
    LET found == {j \in i..Len(order) : order[j] \in Ids(tasks)}
    IN  IF found = {}
        THEN /\ queue' = Append(q, Req("getAll", NoTask, "reorder", <<>>, order,
                                       0, ""))
             /\ UNCHANGED tasks
        ELSE LET j == CHOOSE x \in found : \A y \in found : x <= y
                 k == CHOOSE x \in 1..Len(tasks) : tasks[x].id = order[j]
                 task == [tasks[k] EXCEPT !.time = newTime(j)]
             IN  /\ tasks' = [tasks EXCEPT ![k] = task]
                 /\ queue' = Append(q, Req("put", task, "reorder", <<>>, order,
                                           j + 1, ""))

----------------------------------------------------------------------------
(* User intents *)

(* analyzeMedia up to the first await of the AI backend *)
analyzeMedia(type) ==
    /\ solo' = Idle
    /\ UNCHANGED rendered
    /\ ops < MaxOps
    /\ ai[type] = "idle"
    /\ ai' = [ai EXCEPT ![type] = "requested"]
    /\ responsePre' = [responsePre EXCEPT ![type] = "Analyzing..."]
    /\ ops' = ops + 1
    /\ last' = Event("analyze", 0)
    /\ batchesOnly' = (batchesOnly /\ Idle)
    /\ UNCHANGED <<db, nextId, tasks, queue, conflictStatus, clock, fails,
                   deleted, born>>

(* a chunk of result.stream arrives *)
streamChunk(type) ==
    /\ UNCHANGED <<rendered, solo>>
    /\ ai[type] = "requested"
    /\ ai' = [ai EXCEPT ![type] = "streaming"]
    /\ responsePre' = [responsePre EXCEPT ![type] = "fullResponse"]
    /\ last' = Event("chunk", 0)
    /\ UNCHANGED <<db, nextId, tasks, queue, conflictStatus, clock, ops, fails,
                   deleted, born, batchesOnly>>

aiFails_addsPartial(type) ==
    /\ UNCHANGED <<rendered, solo>>
    /\ ai[type] \in {"requested", "streaming"}
    /\ ai' = [ai EXCEPT ![type] = "idle"]
    /\ responsePre' = [responsePre EXCEPT ![type] = "Error"]
    /\ last' = Event("aiError", IF ai[type] = "streaming" THEN 1 ELSE 0)
    /\ IF ai[type] = "streaming" /\ clock <= MaxIds
       THEN \E c \in Cands : addTasksFromAI(queue, <<c>>, type)
       ELSE UNCHANGED <<queue, conflictStatus, clock>>
    /\ UNCHANGED <<db, nextId, tasks, ops, fails, deleted, born, batchesOnly>>

(* getSource, fileToGenerativePart, generateContentStream or the stream     *)
(* throws: the catch of analyzeMedia                                        *)
aiFails(type) ==
    /\ UNCHANGED <<rendered, solo>>
    /\ ai[type] \in {"requested", "streaming"}
    /\ ai' = [ai EXCEPT ![type] = "idle"]
    /\ responsePre' = [responsePre EXCEPT ![type] = "Error"]
    /\ last' = Event("aiError", IF ai[type] = "streaming" THEN 1 ELSE 0)
    /\ UNCHANGED <<db, nextId, tasks, queue, conflictStatus, clock, ops, fails,
                   deleted, born, batchesOnly>>

streamEnd_emptyLoads(type, text) ==
    /\ UNCHANGED <<rendered, solo>>
    /\ ai[type] = "streaming"
    /\ ai' = [ai EXCEPT ![type] = "idle"]
    /\ LET parsed == parseTaskFromAI(text)
       IN  IF ~parsed.isNull
           THEN /\ clock + Len(parsed.arr) <= MaxIds + 1
                /\ addTasksFromAI(queue, parsed.arr, type)
                /\ last' = [Event("batch", Len(parsed.arr)) EXCEPT !.text = text]
           ELSE /\ UNCHANGED <<queue, conflictStatus, clock>>
                /\ last' = [Event("noTask", 0) EXCEPT !.text = text]
    /\ UNCHANGED <<db, nextId, tasks, responsePre, ops, fails, deleted, born,
                   batchesOnly>>

(* the stream ends with fullResponse = text: parse, then addTasksFromAI up  *)
(* to its first store.add                                                   *)
streamEnd(type, text) ==
    /\ UNCHANGED <<rendered, solo>>
    /\ ai[type] = "streaming"
    /\ ai' = [ai EXCEPT ![type] = "idle"]
    /\ LET parsed == parseTaskFromAI(text)
       IN  IF ~parsed.isNull /\ Len(parsed.arr) > 0
           THEN /\ clock + Len(parsed.arr) <= MaxIds + 1
                /\ addTasksFromAI(queue, parsed.arr, type)
                /\ last' = [Event("batch", Len(parsed.arr)) EXCEPT !.text = text]
           ELSE /\ UNCHANGED <<queue, conflictStatus, clock>>
                /\ last' = [Event("noTask", 0) EXCEPT !.text = text]
    /\ UNCHANGED <<db, nextId, tasks, responsePre, ops, fails, deleted, born,
                   batchesOnly>>

(* drop: handleTaskReorder with the rendered items in the order `order` *)
handleTaskReorder(order) ==
    /\ solo' = Idle
    /\ UNCHANGED rendered
    /\ ops < MaxOps
    /\ Len(order) = Len(tasks)
    /\ Len(order) > 0
    /\ {order[i] : i \in 1..Len(order)} = Ids(tasks)
    /\ reorderFrom(queue, order, 1)
    /\ ops' = ops + 1
    /\ last' = Event("reorder", 0)
    /\ batchesOnly' = FALSE
    /\ UNCHANGED <<db, nextId, ai, responsePre, conflictStatus, clock, fails,
                   deleted, born>>

(* editTask(id) with the prompt answered newTitle *)
editTask(id, newTitle) ==
    /\ solo' = Idle
    /\ UNCHANGED rendered
    /\ ops < MaxOps
    /\ id \in Ids(tasks)
    /\ LET k == CHOOSE x \in 1..Len(tasks) : tasks[x].id = id
           task == [tasks[k] EXCEPT !.title = newTitle]
       IN  /\ tasks' = [tasks EXCEPT ![k] = task]
           /\ queue' = Append(queue, Req("put", task, "edit", <<>>, <<>>, 0, ""))
    /\ ops' = ops + 1
    /\ last' = Event("edit", id)
    /\ batchesOnly' = FALSE
    /\ UNCHANGED <<db, nextId, ai, responsePre, conflictStatus, clock, fails,
                   deleted, born>>

(* deleteTaskHandler(id) with the confirm accepted *)
deleteTaskHandler(id) ==
    /\ solo' = Idle
    /\ UNCHANGED rendered
    /\ ops < MaxOps
    /\ id \in Ids(tasks)
    /\ queue' = Append(queue, Req("delete", [NoTask EXCEPT !.id = id], "delete",
                                  <<>>, <<>>, 0, ""))
    /\ ops' = ops + 1
    /\ last' = Event("delete", id)
    /\ batchesOnly' = FALSE
    /\ UNCHANGED <<db, nextId, tasks, ai, responsePre, conflictStatus, clock,
                   fails, deleted, born>>

(* the resolveConflicts button *)
resolveAllConflicts ==
    /\ solo' = Idle
    /\ UNCHANGED rendered
    /\ ops < MaxOps
    /\ LET r == sweepFrom(tasks, 1, conflictStatus)
       IN  /\ tasks' = r.list
           /\ conflictStatus' = r.status
    /\ queue' = Append(queue, LoadReq("resolveAll", NoTask))
    /\ ops' = ops + 1
    /\ last' = Event("resolveAll", 0)
    /\ batchesOnly' = FALSE
    /\ UNCHANGED <<db, nextId, ai, responsePre, clock, fails, deleted, born>>

(* the setTimeout of updateConflictStatus *)
statusTimeout ==
    /\ UNCHANGED <<rendered, solo>>
    /\ conflictStatus # 0
    /\ conflictStatus' = 0
    /\ UNCHANGED <<db, nextId, tasks, queue, ai, responsePre, clock, ops, fails,
                   last, deleted, born, batchesOnly>>

----------------------------------------------------------------------------
(* Completion of the oldest pending request, and the awaiting handler up to *)
(* its next request                                                         *)

(* store.add succeeds: saveTask resolves, addTasksFromAI goes on *)
saveTaskDone ==
    /\ UNCHANGED <<rendered, solo>>
    /\ queue # <<>>
    /\ Head(queue).op = "add"
    /\ db' = storeAdd(db, Head(queue).task, nextId)
    /\ nextId' = nextId + 1
    /\ born' = born \cup {<<nextId, Head(queue).task.created>>}
    /\ addTasksFromAI(Tail(queue), Head(queue).rest, Head(queue).type)
    /\ last' = Event("saved", nextId)
    /\ UNCHANGED <<tasks, ai, responsePre, ops, fails, deleted, batchesOnly>>

saveTaskFails_skipsAndContinues ==
    /\ UNCHANGED <<rendered, solo>>
    /\ queue # <<>>
    /\ Head(queue).op = "add"
    /\ fails < MaxFails
    /\ fails' = fails + 1
    /\ addTasksFromAI(Tail(queue), Head(queue).rest, Head(queue).type)
    /\ responsePre' = [responsePre EXCEPT ![Head(queue).type] = "Error"]
    /\ last' = Event("saveError", 0)
    /\ batchesOnly' = FALSE
    /\ UNCHANGED <<db, nextId, tasks, ai, ops, deleted, born>>

(* store.add is rejected: saveTask rejects, addTasksFromAI throws, the      *)
(* catch of analyzeMedia reports it                                         *)
saveTaskFails ==
    /\ UNCHANGED <<rendered, solo>>
    /\ queue # <<>>
    /\ Head(queue).op = "add"
    /\ fails < MaxFails
    /\ fails' = fails + 1
    /\ queue' = Tail(queue)
    /\ responsePre' = [responsePre EXCEPT ![Head(queue).type] = "Error"]
    /\ last' = Event("saveError", 0)
    /\ batchesOnly' = FALSE
    /\ UNCHANGED <<db, nextId, tasks, ai, conflictStatus, clock, ops, deleted,
                   born>>

(* store.put succeeds: updateTask resolves; handleTaskReorder goes on with  *)
(* its loop, editTask with loadTasks()                                      *)
updateTaskDone ==
    /\ UNCHANGED <<rendered, solo>>
    /\ queue # <<>>
    /\ Head(queue).op = "put"
    /\ db' = storePut(db, Head(queue).task)
    /\ IF Head(queue).kind = "reorder"
       THEN reorderFrom(Tail(queue), Head(queue).order, Head(queue).i)
       ELSE /\ queue' = Append(Tail(queue), LoadReq("edit", NoTask))
            /\ UNCHANGED tasks
    /\ last' = Event("updated", Head(queue).task.id)
    /\ UNCHANGED <<nextId, ai, responsePre, conflictStatus, clock, ops, fails,
                   deleted, born, batchesOnly>>

deleteTaskDone_rejectsAbsent ==
    /\ UNCHANGED <<rendered, solo>>
    /\ queue # <<>>
    /\ Head(queue).op = "delete"
    /\ IF Head(queue).task.id \in {r.id : r \in db}
       THEN /\ db' = storeDelete(db, Head(queue).task.id)
            /\ queue' = Append(Tail(queue), LoadReq("delete", Head(queue).task))
            /\ deleted' = deleted \cup {Head(queue).task.id}
            /\ last' = Event("deleted", Head(queue).task.id)
       ELSE /\ queue' = Tail(queue)
            /\ last' = Event("deleteError", Head(queue).task.id)
            /\ UNCHANGED <<db, deleted>>
    /\ UNCHANGED <<nextId, tasks, ai, responsePre, conflictStatus, clock, ops,
                   fails, born, batchesOnly>>

(* store.delete succeeds: deleteTask resolves, deleteTaskHandler goes on    *)
(* with loadTasks()                                                         *)
deleteTaskDone ==
    /\ UNCHANGED <<rendered, solo>>
    /\ queue # <<>>
    /\ Head(queue).op = "delete"
    /\ db' = storeDelete(db, Head(queue).task.id)
    /\ queue' = Append(Tail(queue), LoadReq("delete", Head(queue).task))
    /\ deleted' = deleted \cup {Head(queue).task.id}
    /\ last' = Event(IF Head(queue).task.id \in {r.id : r \in db}
                     THEN "deleted" ELSE "deletedAbsent", Head(queue).task.id)
    /\ UNCHANGED <<nextId, tasks, ai, responsePre, conflictStatus, clock, ops,
                   fails, born, batchesOnly>>

(* store.getAll succeeds: loadTasks sets this.tasks, renderTasks follows,   *)
(* and the handler ends                                                     *)
loadTasksDone ==
    /\ queue # <<>>
    /\ Head(queue).op = "getAll"
    /\ tasks' = loadTasks(db)
    /\ rendered' = loadTasks(db)
    /\ UNCHANGED solo
    /\ queue' = Tail(queue)
    /\ last' = Event("loaded", 0)
    /\ UNCHANGED <<db, nextId, ai, responsePre, conflictStatus, clock, ops,
                   fails, deleted, born, batchesOnly>>

Next ==
    \/ \E type \in Types : analyzeMedia(type)
    \/ \E type \in Types : streamChunk(type)
    \/ \E type \in Types : aiFails(type)
    \/ \E type \in Types, text \in Responses : streamEnd(type, text)
    \/ \E order \in UNION {[1..n -> 1..MaxIds] : n \in 1..MaxIds} :
           handleTaskReorder(order)
    \/ \E id \in 1..MaxIds, newTitle \in EditTitles : editTask(id, newTitle)
    \/ \E id \in 1..MaxIds : deleteTaskHandler(id)
    \/ resolveAllConflicts
    \/ statusTimeout
    \/ saveTaskDone
    \/ saveTaskFails
    \/ updateTaskDone
    \/ deleteTaskDone
    \/ loadTasksDone

Spec == Init /\ [][Next]_vars

----------------------------------------------------------------------------
(* Shared vocabulary of the properties *)

TimeOf(r) == DateParse(r.time)

StoreIds == {r.id : r \in db}

(* time ascending, ties by id ascending *)
IsSortedView(list) ==
    \A i, j \in 1..Len(list) :
        i < j => \/ TimeOf(list[i]) < TimeOf(list[j])
                 \/ TimeOf(list[i]) = TimeOf(list[j]) /\ list[i].id < list[j].id

(* The step that completes the oldest request, by the kind of request.  A  *)
(* completion takes the head off the queue and the awaiting handler issues  *)
(* at most one request; a user intent only appends.                         *)
Completes(op) ==
    /\ queue # <<>>
    /\ Head(queue).op = op
    /\ Len(queue') <= Len(queue)
    /\ queue' # queue

SaveStep == Completes("add") /\ nextId' = nextId + 1

PutStep == Completes("put")

DeleteStep == Completes("delete")

NumAdds(q) == Cardinality({i \in 1..Len(q) : q[i].op = "add"})

----------------------------------------------------------------------------
(* C1: after any sequence of completed analysis batches, run one at a time  *)
(* and with nothing else, no two stored tasks are less than one hour apart. *)
C1_ConflictFree ==
    (batchesOnly /\ Idle) =>
        \A r1, r2 \in db :
            r1.id # r2.id => Abs(TimeOf(r1) - TimeOf(r2)) >= oneHour

(* C2: resolving any candidate against the current list gives one hour      *)
(* after the first listed task less than one hour from it, and the          *)
(* candidate unchanged when no listed task is that close.                   *)
C2_ResolveFirstConflict ==
    \A c \in Cands :
        LET task == buildTask(c, clock)
            near == {i \in 1..Len(tasks) :
                        Abs(TimeOf(task) - TimeOf(tasks[i])) < oneHour}
            r == resolveConflicts(task, tasks)
        IN  IF near = {} THEN r = task
            ELSE LET first == CHOOSE i \in near : \A j \in near : i <= j
                 IN  /\ r.time = [t |-> TimeOf(tasks[first]) + oneHour, utc |-> TRUE]
                     /\ r = [task EXCEPT !.time = r.time]

(* C2 witness: with a task at 11:00 listed, a candidate was moved to 12:00  *)
(* and its store.add is pending.                                            *)
C2_Witness ==
    /\ \E i \in 1..Len(tasks) : TimeOf(tasks[i]) = 22
    /\ conflictStatus = 24
    /\ queue # <<>>
    /\ queue[Len(queue)].op = "add"
    /\ queue[Len(queue)].task.time = [t |-> 24, utc |-> TRUE]

(* C3: when candidate k of a batch has been inserted and candidate k+1 is   *)
(* less than one hour from it and from no other task, candidate k+1 is      *)
(* added at one hour after candidate k.                                     *)
C3_SeesEarlierCandidates ==
    [][(SaveStep /\ Head(queue).rest # <<>>) =>
          LET prev == Head(queue).task
              cand == Head(Head(queue).rest)
              next == queue'[Len(queue')].task
          IN  (/\ Abs(TimeOf(cand) - TimeOf(prev)) < oneHour
               /\ \A r \in db : Abs(TimeOf(cand) - TimeOf(r)) >= oneHour
               /\ \A i \in 1..Len(tasks) :
                      Abs(TimeOf(cand) - TimeOf(tasks[i])) >= oneHour)
              => TimeOf(next) = TimeOf(prev) + oneHour]_vars

C5_ReorderTimes ==
    [][(PutStep /\ Head(queue).kind = "reorder") =>
          LET req == Head(queue)
              pos == CHOOSE p \in 1..Len(req.order) : req.order[p] = req.task.id
          IN  /\ req.task.time = [t |-> startHour + (pos - 1) * oneHour, utc |-> TRUE]
              /\ \E r \in db' : r.id = req.task.id /\ r.time = req.task.time]_vars

(* C5 witness: a reorder has just written its second position at 10:00 and  *)
(* the store holds a task at 09:00, a time no candidate has.                *)
C5_Witness ==
    /\ last.ev = "updated"
    /\ queue # <<>>
    /\ queue[Len(queue)].kind = "reorder"
    /\ \E r \in db : r.id = last.id /\ TimeOf(r) = startHour + oneHour
    /\ \E r \in db : r.id # last.id /\ TimeOf(r) = startHour

(* C6: a store.put of a reorder neither adds nor removes a record, and      *)
(* leaves every record whose id is not in the supplied order as it was.     *)
C6_ReorderFrame ==
    [][(PutStep /\ Head(queue).kind = "reorder") =>
          /\ {r.id : r \in db'} = {r.id : r \in db}
          /\ \A r \in db :
                 (\A p \in 1..Len(Head(queue).order) : Head(queue).order[p] # r.id)
                 => r \in db']_vars

(* C7: a stored record keeps the created value it was inserted with, and    *)
(* only a reorder's store.put changes the time of a stored record.          *)
C7_CreatedAndTimeStable ==
    [][/\ \A r \in db' : <<r.id, r.created>> \in born'
       /\ \A r \in db, r2 \in db' :
              (r.id = r2.id /\ r.time # r2.time)
              => (PutStep /\ Head(queue).kind = "reorder")]_vars

(* C8: once store.delete(id) has completed, no record with that id is in    *)
(* the store.                                                               *)
C8_DeleteIsTerminal == \A r \in db : r.id \notin deleted

(* C9: a completing store.delete(id) leaves no record with that id, leaves  *)
(* the store unchanged when there was none, is not an error (the handler    *)
(* goes on to loadTasks), and deleting again would change nothing.          *)
C9_DeleteIdempotent ==
    [][DeleteStep =>
          LET id == Head(queue).task.id
          IN  /\ id \notin {r.id : r \in db'}
              /\ id \notin StoreIds => db' = db
              /\ {r \in db' : r.id # id} = db'
              /\ db' \subseteq db
              /\ queue' # <<>>
              /\ queue'[Len(queue')].op = "getAll"
              /\ queue'[Len(queue')].kind = "delete"]_vars

(* C9 witness: a delete of an id the store no longer held has completed,    *)
(* with other records in the store.                                         *)
C9_Witness == last.ev = "deletedAbsent" /\ db # {}

(* C10: when the AI call or its stream fails, the error is shown, the       *)
(* store, the pending requests and the task list are as before; and a       *)
(* store.add is only ever issued by a batch, after its stream has ended.    *)
C10_AiFailurePersistsNothing ==
    [][/\ (\E ty \in Types : ai[ty] # "idle" /\ ai'[ty] = "idle"
                             /\ last'.ev = "aiError")
          => /\ db' = db
             /\ queue' = queue
             /\ tasks' = tasks
             /\ nextId' = nextId
             /\ \E ty \in Types : responsePre'[ty] = "Error"
       /\ NumAdds(queue') > NumAdds(queue) => last'.ev = "batch"
       /\ NumAdds(queue') = NumAdds(queue) /\ SaveStep => last'.ev = "saved"
       /\ db' # db => (SaveStep \/ PutStep \/ DeleteStep)]_vars

(* C10 witness: a stream failed after a chunk, with tasks of an earlier     *)
(* analysis in the store.                                                   *)
C10_Witness ==
    /\ last = Event("aiError", 1)
    /\ db # {}
    /\ \E ty \in Types : responsePre[ty] = "Error"

----------------------------------------------------------------------------
(* More steps, by what they do to the queue and the AI position *)

(* store.add is rejected *)
SaveFailStep == Completes("add") /\ nextId' = nextId

(* the stream of an analysis ends and its text is parsed *)
StreamEndStep ==
    /\ \E ty \in Types : ai[ty] = "streaming" /\ ai'[ty] = "idle"
    /\ last'.ev \in {"batch", "noTask"}

(* the resolve-all click *)
ResolveAllStep ==
    /\ Len(queue') = Len(queue) + 1
    /\ queue'[Len(queue')].kind = "resolveAll"

(* the request a step has issued *)
Issued == queue'[Len(queue')]

(* the store.add of candidate c, resolved against the list as it is *)
IsAddOf(req, c, rest) ==
    /\ req.op = "add"
    /\ req.task = resolveConflicts(buildTask(c, clock), tasks)
    /\ req.rest = rest

ViewIds(list) == [i \in 1..Len(list) |-> list[i].id]

----------------------------------------------------------------------------
(* C11: when the store.add of a candidate is rejected, the store is as      *)
(* before (the earlier candidates stay), the error is shown, and the batch  *)
(* issues no further request: neither the rejected add again nor the adds   *)
(* of the candidates after it.                                              *)
C11_PartialBatchFailure ==
    [][SaveFailStep =>
          /\ db' = db
          /\ nextId' = nextId
          /\ queue' = Tail(queue)
          /\ clock' = clock
          /\ responsePre'[Head(queue).type] = "Error"]_vars

(* C11 witness: the only analysis so far stored its first candidate, the    *)
(* add of its second was rejected, and nothing is pending.                  *)
C11_Witness ==
    /\ last.ev = "saveError"
    /\ ops = 1
    /\ Cardinality(db) = 1
    /\ clock = 3
    /\ queue = <<>>
    /\ \E ty \in Types : responsePre[ty] = "Error"

(* C12: every stored task has a title. *)
C12_StoredTasksHaveTitle == \A r \in db : r.title # "undefined"

(* C13: a stream end whose text parses to null or to an empty array issues  *)
(* no request, changes neither the store, the list nor the rendered items,  *)
(* and shows no error.                                                      *)
C13_ZeroCandidatesNoOp ==
    [][(StreamEndStep /\ LET p == parseTaskFromAI(last'.text)
                         IN  p.isNull \/ p.arr = <<>>)
       => /\ queue' = queue
          /\ db' = db
          /\ nextId' = nextId
          /\ tasks' = tasks
          /\ rendered' = rendered
          /\ responsePre' = responsePre]_vars

(* C13 witness: with tasks stored, a response without any JSON has just     *)
(* been parsed.                                                             *)
C13_Witness ==
    /\ last.ev = "noTask"
    /\ last.text = <<Tok("prose")>>
    /\ db # {}

(* C14: a text whose first [...] is not valid JSON and which holds a valid  *)
(* {...} object yields that object as the only candidate: its store.add is  *)
(* issued.                                                                  *)
C14_FallsThroughToObjectRule ==
    \A c \in Cands :
        last.text = <<Tok("["), Tok("prose"), Tok("]"), Obj(c)>>
        => /\ last.ev = "batch"
           /\ last.id = 1
           /\ queue # <<>>
           /\ queue[Len(queue)].op = "add"
           /\ queue[Len(queue)].task.title = c.title
           /\ queue[Len(queue)].rest = <<>>

(* C15: the resolve-all click changes no task of the current task list.     *)
C15_ResolveAllLeavesList == [][ResolveAllStep => tasks' = tasks]_vars

(* C16: a batch issues the store.add of its candidates one after the other  *)
(* in the order parsed, each resolved when it is issued, so ids grow in     *)
(* that order; it renders nothing at an insert, and issues its one          *)
(* loadTasks when the last insert has completed, and only then.             *)
C16_BatchOrder ==
    [][/\ (StreamEndStep /\ last'.ev = "batch")
          => LET arr == parseTaskFromAI(last'.text).arr
             IN  /\ Len(queue') = Len(queue) + 1
                 /\ IsAddOf(Issued, arr[1], Tail(arr))
       /\ SaveStep
          => /\ \A r \in db : r.id < nextId
             /\ \E r \in db' : r.id = nextId /\ r.title = Head(queue).task.title
             /\ rendered' = rendered
             /\ tasks' = tasks
             /\ IF Head(queue).rest # <<>>
                THEN IsAddOf(Issued, Head(Head(queue).rest), Tail(Head(queue).rest))
                ELSE Issued.op = "getAll" /\ Issued.kind = "analyze"
       /\ (queue' # <<>> /\ queue' # queue /\ Len(queue') >= Len(queue)
           /\ Issued.op = "getAll" /\ Issued.kind = "analyze")
          => (SaveStep /\ Head(queue).rest = <<>>)]_vars

(* C16 witness: the only analysis so far returned "cat" then "vet"; both    *)
(* are stored with ids in that order and the one rendering followed.        *)
C16_Witness ==
    /\ last.ev = "loaded"
    /\ ops = 1
    /\ queue = <<>>
    /\ Len(rendered) = 2
    /\ rendered[1].title = "vet" /\ rendered[1].id = 2
    /\ rendered[2].title = "cat" /\ rendered[2].id = 1

(* C17 as stated: a store.put of a task whose id the store does not hold    *)
(* leaves the store unchanged; one whose id it holds writes the record.     *)
C17_UpdateRejectsUnknownId ==
    [][PutStep =>
          IF Head(queue).task.id \in StoreIds
          THEN Head(queue).task \in db'
          ELSE db' = db]_vars

(* C17 amended: a store.put writes the full record whether or not the id    *)
(* exists: afterwards the store holds exactly that record under the id,     *)
(* every other record is as before, and the handler goes on.                *)
C17_UpdateUpserts ==
    [][PutStep =>
          /\ {r \in db' : r.id = Head(queue).task.id} = {Head(queue).task}
          /\ {r \in db' : r.id # Head(queue).task.id}
                 = {r \in db : r.id # Head(queue).task.id}
          /\ Len(queue') = Len(queue)]_vars

(* C17 witness: a put of a task whose delete had completed has put the      *)
(* record back.                                                             *)
C17_Witness ==
    /\ last.ev = "updated"
    /\ last.id \in deleted
    /\ \E r \in db : r.id = last.id

(* C18: when a reorder that ran alone reloads, the rendered list has the    *)
(* ids in exactly the supplied order.                                       *)
C18_ReorderedViewOrder ==
    [][(Completes("getAll") /\ Head(queue).kind = "reorder" /\ solo)
       => ViewIds(rendered') = Head(queue).order]_vars

(* C19: the resolve-all click issues no store write, and when a sweep that  *)
(* ran alone reloads, the store and the rendered list are as before.        *)
C19_SweepWritesNothing ==
    [][/\ ResolveAllStep => (db' = db /\ Issued.op = "getAll")
       /\ (Completes("getAll") /\ Head(queue).kind = "resolveAll" /\ solo)
          => (db' = db /\ rendered' = rendered)]_vars

(* C20: when nothing is in flight, this.tasks holds exactly the stored      *)
(* records.                                                                 *)
C20_IdleListIsStore ==
    Idle => /\ Len(tasks) = Cardinality(db)
            /\ \A i \in 1..Len(tasks) : tasks[i] \in db

(* C21: the store.put of a title edit changes only the title of the stored  *)
(* record with that id: its time, description and created, and every other  *)
(* record, are as immediately before the put, whatever else is in flight.   *)
C21_EditChangesOnlyTitle ==
    [][(PutStep /\ Head(queue).kind = "edit") =>
          LET t == Head(queue).task
          IN  /\ {r \in db' : r.id # t.id} = {r \in db : r.id # t.id}
              /\ \A r \in db, r2 \in db' :
                     (r.id = t.id /\ r2.id = t.id)
                     => /\ r2.time = r.time
                        /\ r2.description = r.description
                        /\ r2.created = r.created]_vars

====
